---- MODULE Spec2Model ----
(***************************************************************************)
(* Kenya Civic Data Explorer: the DataService of                           *)
(* src/submission-zip/submission-zip/src/index.js as a state machine.      *)
(* One fetchAllAreas call runs at a time (single-threaded event loop); it  *)
(* suspends at every await, so each action below is the code that runs     *)
(* between two suspension points.  The network and the clock are the       *)
(* environment: they choose the outcome of every attempt.                  *)
(***************************************************************************)
EXTENDS Integers, Sequences, FiniteSets, TLC

VARIABLES
  useMockData,   \* DataService.useMockData
  cache,         \* DataService.cache, the single entry 'allAreas'
  pc,            \* position of the running call: idle, counties, areas, direct, done
  counties,      \* fetchAllAreas: const counties
  allAreas,      \* fetchAllAreas: const allAreas
  idx,           \* fetchAllAreas: 1-based position of the for..of loop
  path,          \* which way the last fetchAllAreas call took: mock, cache, assembled, fallback
  outcome,       \* how the last fetchAllAreas call ended: none, returned, threw
  result,        \* the collection the last fetchAllAreas call returned
  calls,         \* number of calls started so far
  requests,      \* URLs handed to _fetchJSON during the running fetchAllAreas call
  sublog,        \* per county of the running call: did its _fetchJSON throw, and what it returned
  countyListFailed, \* did fetchCounties hit its catch in the running call
  fpc,           \* _fetchJSON position: idle, fetch, bodyJson, bodyText, backoff, ok, fail
  retries,       \* _fetchJSON parameter retries
  attempt,       \* _fetchJSON: let attempt
  attempts,      \* number of fetch() requests issued by the running _fetchJSON call
  timers,        \* pending per-attempt timeout timers (ids are attempt numbers)
  elapsed,       \* ms since the running attempt issued its request
  delays,        \* backoff delays waited by the running _fetchJSON call, in order
  errs,          \* failure of every failed attempt of the running _fetchJSON call
  inflight,      \* number of network requests in flight
  fret           \* what _fetchJSON returned or threw

VARIABLES
  R,             \* the array a caller hands to a DataService helper or that App filters
  arg,           \* what the argument of the last helper call held when the call began
  op,            \* the operation applied last, none at the start
  key,           \* sortData: the sortBy argument
  crit,          \* applyFilters: the values read from the three filter controls
  filtered,      \* applyFilters: this.filteredData after the filter, before the sort
  out,           \* the array the helper returned
  outFresh,      \* is the returned array another object than the argument
  stats,         \* what calculateStatistics returned
  uniq,          \* what getUniqueCounties returned
  trimSearch     \* which App is running: src/src/index.js trims the search term

VARIABLES
  now,           \* the clock of the debounce scenario, ms
  timeout,       \* debounce: let timeout, the id of the timer set last (its deadline)
  pending,       \* timers set by the debounced function and not yet fired or cleared
  triggers,      \* the times at which the debounced function was called
  invocations    \* the times at which func was invoked

VARIABLES
  stored,        \* localStorage: the entry under StorageManager.preferencesKey
  storageOk,     \* would isStorageAvailable() return true now
  clock,         \* Date.now(), ms
  scall          \* the last StorageManager call: method, entry before and after,
                 \* time, storage state, result

VARIABLES
  online,        \* navigator.onLine when init runs
  apc,           \* position of the App: boot, initLoad, retryLoad, idle
  ui,            \* what the results container shows
  retryHandler,  \* App._retryHandler is attached to the document
  listening,     \* setupEventListeners has registered the control listeners
  controls,      \* values of search-input, filter-county, filter-type, sort-by
  currentData,   \* App.currentData, in live mode the array the cache holds
  loadedData,    \* what currentData held when loadData stored it
  filteredData,  \* App.filteredData
  aliased,       \* has this.filteredData ever been the array currentData
  last,          \* what the handler that ran last did
  sinceReset     \* resetFilters has run and no control was changed since

fetchVars == <<fpc, retries, attempt, attempts, timers, elapsed, delays, errs, inflight, fret>>
callVars == <<pc, path, counties, allAreas, idx, outcome, result, calls, requests, sublog, countyListFailed>>
helperVars == <<R, arg, op, key, crit, filtered, out, outFresh, stats, uniq, trimSearch>>
debounceVars == <<now, timeout, pending, triggers, invocations>>
storeVars == <<stored, storageOk, clock, scall>>
appVars == <<online, apc, ui, retryHandler, listening, controls, currentData, loadedData,
             filteredData, aliased, last, sinceReset>>
serviceVars == <<useMockData, cache, pc, path, counties, allAreas, idx, outcome, result, calls,
                 requests, sublog, countyListFailed,
                 fpc, retries, attempt, attempts, timers, elapsed, delays, errs, inflight, fret>>
vars == <<useMockData, cache, pc, path, counties, allAreas, idx, outcome, result, calls,
          requests, sublog, countyListFailed,
          fpc, retries, attempt, attempts, timers, elapsed, delays, errs, inflight, fret,
          R, arg, op, key, crit, filtered, out, outFresh, stats, uniq, trimSearch,
          now, timeout, pending, triggers, invocations,
          stored, storageOk, clock, scall,
          online, apc, ui, retryHandler, listening, controls, currentData, loadedData,
          filteredData, aliased, last, sinceReset>>

----------------------------------------------------------------------------
(* Bounds of the model *)
MaxCalls == 3          \* calls started in one behaviour
MaxCounties == 2       \* length of a county list the remote source answers with
MaxRetriesArg == 5     \* largest retries argument of a direct _fetchJSON call
TickMs == 4000         \* granularity of the clock
MaxElapsed == 12000    \* the clock of an attempt without a pending timer stops here

(* Program constants *)
TimeoutMs == 8000
CallerRetries == 2
BackoffBaseMs == 1000
BackoffCapMs == 8000

Min(a, b) == IF a < b THEN a ELSE b

----------------------------------------------------------------------------
(* Values *)
Undefined == "<undefined>"

Falsy(v) == v = Undefined \/ v = ""

Rec(n, c, t, co, cs) ==
  [name |-> n, code |-> c, type |-> t, county |-> co, constituency |-> cs]

getComprehensiveMockData ==
  << Rec("Nairobi", "047", "county", "Nairobi", Undefined),
     Rec("Westlands", "047-01", "constituency", "Nairobi", Undefined),
     Rec("Kitisuru", "047-01-01", "ward", "Nairobi", "Westlands"),
     Rec("Parklands/Highridge", "047-01-02", "ward", "Nairobi", "Westlands"),
     Rec("Karura", "047-01-03", "ward", "Nairobi", "Westlands"),
     Rec("Kangemi", "047-01-04", "ward", "Nairobi", "Westlands"),
     Rec("Mountain View", "047-01-05", "ward", "Nairobi", "Westlands"),
     Rec("Dagoretti North", "047-02", "constituency", "Nairobi", Undefined),
     Rec("Kilimani", "047-02-01", "ward", "Nairobi", "Dagoretti North"),
     Rec("Kawangware", "047-02-02", "ward", "Nairobi", "Dagoretti North"),
     Rec("Gatina", "047-02-03", "ward", "Nairobi", "Dagoretti North"),
     Rec("Kileleshwa", "047-02-04", "ward", "Nairobi", "Dagoretti North"),
     Rec("Kabiro", "047-02-05", "ward", "Nairobi", "Dagoretti North"),
     Rec("Langata", "047-03", "constituency", "Nairobi", Undefined),
     Rec("Karen", "047-03-01", "ward", "Nairobi", "Langata"),
     Rec("Nairobi West", "047-03-02", "ward", "Nairobi", "Langata"),
     Rec("Mugumo-ini", "047-03-03", "ward", "Nairobi", "Langata"),
     Rec("South C", "047-03-04", "ward", "Nairobi", "Langata"),
     Rec("Nyayo Highrise", "047-03-05", "ward", "Nairobi", "Langata"),
     Rec("Mombasa", "001", "county", "Mombasa", Undefined),
     Rec("Mvita", "001-01", "constituency", "Mombasa", Undefined),
     Rec("Mji Wa Kale/Makadara", "001-01-01", "ward", "Mombasa", "Mvita"),
     Rec("Tudor", "001-01-02", "ward", "Mombasa", "Mvita"),
     Rec("Tononoka", "001-01-03", "ward", "Mombasa", "Mvita"),
     Rec("Shimanzi/Ganjoni", "001-01-04", "ward", "Mombasa", "Mvita"),
     Rec("Majengo", "001-01-05", "ward", "Mombasa", "Mvita"),
     Rec("Changamwe", "001-02", "constituency", "Mombasa", Undefined),
     Rec("Port Reitz", "001-02-01", "ward", "Mombasa", "Changamwe"),
     Rec("Kipevu", "001-02-02", "ward", "Mombasa", "Changamwe"),
     Rec("Airport", "001-02-03", "ward", "Mombasa", "Changamwe"),
     Rec("Changamwe", "001-02-04", "ward", "Mombasa", "Changamwe"),
     Rec("Chaani", "001-02-05", "ward", "Mombasa", "Changamwe"),
     Rec("Kiambu", "022", "county", "Kiambu", Undefined),
     Rec("Kikuyu", "022-01", "constituency", "Kiambu", Undefined),
     Rec("Karai", "022-01-01", "ward", "Kiambu", "Kikuyu"),
     Rec("Nachu", "022-01-02", "ward", "Kiambu", "Kikuyu"),
     Rec("Sigona", "022-01-03", "ward", "Kiambu", "Kikuyu"),
     Rec("Kikuyu", "022-01-04", "ward", "Kiambu", "Kikuyu"),
     Rec("Kinoo", "022-01-05", "ward", "Kiambu", "Kikuyu"),
     Rec("Thika Town", "022-02", "constituency", "Kiambu", Undefined),
     Rec("Township", "022-02-01", "ward", "Kiambu", "Thika Town"),
     Rec("Kamenu", "022-02-02", "ward", "Kiambu", "Thika Town"),
     Rec("Hospital", "022-02-03", "ward", "Kiambu", "Thika Town"),
     Rec("Gatuanyaga", "022-02-04", "ward", "Kiambu", "Thika Town"),
     Rec("Ngoliba", "022-02-05", "ward", "Kiambu", "Thika Town"),
     Rec("Nakuru", "032", "county", "Nakuru", Undefined),
     Rec("Nakuru Town East", "032-01", "constituency", "Nakuru", Undefined),
     Rec("Biashara", "032-01-01", "ward", "Nakuru", "Nakuru Town East"),
     Rec("Flamingo", "032-01-02", "ward", "Nakuru", "Nakuru Town East"),
     Rec("Menengai West", "032-01-03", "ward", "Nakuru", "Nakuru Town East"),
     Rec("Nakuru East", "032-01-04", "ward", "Nakuru", "Nakuru Town East"),
     Rec("Kivumbini", "032-01-05", "ward", "Nakuru", "Nakuru Town East"),
     Rec("Kisumu", "042", "county", "Kisumu", Undefined),
     Rec("Kisumu East", "042-01", "constituency", "Kisumu", Undefined),
     Rec("Kajulu", "042-01-01", "ward", "Kisumu", "Kisumu East"),
     Rec("Kolwa East", "042-01-02", "ward", "Kisumu", "Kisumu East"),
     Rec("Manyatta B", "042-01-03", "ward", "Kisumu", "Kisumu East"),
     Rec("Nyalenda A", "042-01-04", "ward", "Kisumu", "Kisumu East"),
     Rec("Kolwa Central", "042-01-05", "ward", "Kisumu", "Kisumu East"),
     Rec("Kisumu West", "042-02", "constituency", "Kisumu", Undefined),
     Rec("Central Kisumu", "042-02-01", "ward", "Kisumu", "Kisumu West"),
     Rec("Kisumu North", "042-02-02", "ward", "Kisumu", "Kisumu West"),
     Rec("West Kisumu", "042-02-03", "ward", "Kisumu", "Kisumu West"),
     Rec("North West Kisumu", "042-02-04", "ward", "Kisumu", "Kisumu West"),
     Rec("South West Kisumu", "042-02-05", "ward", "Kisumu", "Kisumu West") >>

(* getMockCounties: the built-in county list *)
Entry(n, c) == [isNull |-> FALSE, name |-> n, code |-> c, wards |-> <<>>]

getMockCounties ==
  << Entry("Nairobi", "047"), Entry("Mombasa", "001"), Entry("Kiambu", "022"),
     Entry("Nakuru", "032"), Entry("Kisumu", "042") >>

----------------------------------------------------------------------------
(* What the remote source can answer with.  A decoded body is a tagged     *)
(* value: kind says what the JSON value is (null, an object without the    *)
(* expected key, an object whose key holds a non-array, an object whose    *)
(* key holds an array, raw text for a non-JSON content type, undefined),   *)
(* items is the array when there is one.  An array element may be null.    *)
Payload(k, items) == [kind |-> k, items |-> items]

NoData == Payload("none", <<>>)
TextBody == Payload("text", <<>>)
UndefinedData == Payload("undefined", <<>>)
NullEntry == [isNull |-> TRUE, name |-> Undefined, code |-> Undefined, wards |-> <<>>]

SeqsUpTo(S, n) == UNION {[1..k -> S] : k \in 0..n}

\* the remote source is not bound to send a name with every entry
ServerCounties == {Entry("Nairobi", "047"), Entry("Turkana", "023"), Entry("", "000")}

CountyBodies ==
  {Payload("null", <<>>), Payload("nokey", <<>>), Payload("nonarray", <<>>)}
  \cup {Payload("array", l) : l \in SeqsUpTo(ServerCounties \cup {NullEntry}, MaxCounties)}

ServerConstituency ==
  [isNull |-> FALSE, name |-> "Central", code |-> "01",
   wards |-> << [name |-> "Township", code |-> "01-01"] >>]

AreaBodies ==
  {Payload("array", <<ServerConstituency>>), Payload("nokey", <<>>), Payload("null", <<>>)}

BodiesFor(p) ==
  IF p = "counties" THEN CountyBodies
  ELSE IF p = "areas" THEN AreaBodies
  ELSE CountyBodies \cup AreaBodies

Statuses == {200, 404, 500}
ResOk(status) == status >= 200 /\ status <= 299

Err(n, s) == [name |-> n, status |-> s]
NoErr == Err("none", 0)
AbortError == Err("AbortError", 0)
TypeError == Err("TypeError", 0)
SyntaxError == Err("SyntaxError", 0)
HttpError(status) == Err("Error", status)

Ret(e, d) == [err |-> e, data |-> d]
NoRet == Ret(NoErr, NoData)

----------------------------------------------------------------------------
(* _fetchJSON *)

RECURSIVE Pow2(_)
Pow2(n) == IF n = 0 THEN 1 ELSE 2 * Pow2(n - 1)

\* a backoff without the cap
backoffUncapped(a) == BackoffBaseMs * Pow2(a)

backoff(a) == Min(BackoffBaseMs * Pow2(a), BackoffCapMs)

\* a classification that retries every failure
isAnyError(err) == TRUE

isNetworkError(err) == err.name = "AbortError" \/ err.name = "TypeError"

\* a retry test that admits one retry too many
ShouldRetryOffByOne(a, r, err) == a <= r /\ isNetworkError(err)

ShouldRetry(a, r, err) == a < r /\ isNetworkError(err)

InAttempt == fpc \in {"fetch", "bodyJson", "bodyText"}

\* let attempt = 0; first pass of the while loop up to the await of fetch()
BeginFetchJSON(r) ==
  /\ fpc' = "fetch"
  /\ retries' = r
  /\ attempt' = 0
  /\ attempts' = 1
  /\ timers' = timers \cup {0}
  /\ elapsed' = 0
  /\ delays' = <<>>
  /\ errs' = <<>>
  /\ inflight' = inflight + 1
  /\ fret' = NoRet

\* the caller has consumed the result: the frame is gone, pending timers stay
EndFetchJSON ==
  /\ fpc' = "idle"
  /\ retries' = 0
  /\ attempt' = 0
  /\ attempts' = 0
  /\ elapsed' = 0
  /\ delays' = <<>>
  /\ errs' = <<>>
  /\ fret' = NoRet
  /\ UNCHANGED <<timers, inflight>>

\* the catch block: clearTimeout, then retry or rethrow
CatchAttempt(err) ==
  /\ timers' = timers \ {attempt}
  /\ errs' = Append(errs, err)
  /\ inflight' = inflight - 1
  /\ elapsed' = 0
  /\ IF ShouldRetry(attempt, retries, err)
       THEN fpc' = "backoff" /\ fret' = fret
       ELSE fpc' = "fail" /\ fret' = Ret(err, NoData)
  /\ UNCHANGED <<retries, attempt, attempts, delays>>

\* a clearTimeout that leaves the timer armed
ClearOnResponseNoop(ts, a) == ts

\* clearTimeout(id) right after the await of fetch()
ClearOnResponse(ts, a) == ts \ {a}

\* fetch() resolves with the response headers
FetchResolve ==
  /\ fpc = "fetch"
  /\ \E status \in Statuses, ctype \in {"json", "text"} :
       IF ~ResOk(status)
         THEN CatchAttempt(HttpError(status))
         ELSE /\ timers' = ClearOnResponse(timers, attempt)
              /\ fpc' = IF ctype = "json" THEN "bodyJson" ELSE "bodyText"
              /\ UNCHANGED <<retries, attempt, attempts, elapsed, delays, errs, inflight, fret>>
  /\ UNCHANGED <<useMockData, cache>>
  /\ UNCHANGED callVars
  /\ UNCHANGED <<helperVars, debounceVars, storeVars, appVars>>

\* fetch() rejects: connection or DNS failure
FetchReject ==
  /\ fpc = "fetch"
  /\ CatchAttempt(TypeError)
  /\ UNCHANGED <<useMockData, cache>>
  /\ UNCHANGED callVars
  /\ UNCHANGED <<helperVars, debounceVars, storeVars, appVars>>

\* a timeout timer fires: controller.abort() rejects what the attempt awaits
TimerFire ==
  /\ \E id \in timers :
       IF id = attempt /\ InAttempt
         THEN elapsed >= TimeoutMs /\ CatchAttempt(AbortError)
         ELSE /\ timers' = timers \ {id}
              /\ UNCHANGED <<fpc, retries, attempt, attempts, elapsed, delays, errs, inflight, fret>>
  /\ UNCHANGED <<useMockData, cache>>
  /\ UNCHANGED callVars
  /\ UNCHANGED <<helperVars, debounceVars, storeVars, appVars>>

\* res.json() / res.text() resolves
BodyDone ==
  /\ fpc \in {"bodyJson", "bodyText"}
  /\ \E data \in (IF fpc = "bodyJson" THEN BodiesFor(pc) ELSE {TextBody}) :
       fret' = Ret(NoErr, data)
  /\ fpc' = "ok"
  /\ inflight' = inflight - 1
  /\ elapsed' = 0
  /\ UNCHANGED <<retries, attempt, attempts, timers, delays, errs>>
  /\ UNCHANGED <<useMockData, cache>>
  /\ UNCHANGED callVars
  /\ UNCHANGED <<helperVars, debounceVars, storeVars, appVars>>

\* res.json() / res.text() rejects: unparsable body, or the stream broke
BodyFail ==
  /\ fpc \in {"bodyJson", "bodyText"}
  /\ \E e \in (IF fpc = "bodyJson" THEN {SyntaxError, TypeError} ELSE {TypeError}) :
       CatchAttempt(e)
  /\ UNCHANGED <<useMockData, cache>>
  /\ UNCHANGED callVars
  /\ UNCHANGED <<helperVars, debounceVars, storeVars, appVars>>

\* the backoff promise resolves: attempt += 1; continue; next pass of the loop
BackoffElapsed ==
  /\ fpc = "backoff"
  /\ delays' = Append(delays, backoff(attempt))
  /\ attempt' = attempt + 1
  /\ IF attempt + 1 <= retries
       THEN /\ fpc' = "fetch"
            /\ attempts' = attempts + 1
            /\ timers' = timers \cup {attempt + 1}
            /\ inflight' = inflight + 1
            /\ fret' = fret
       ELSE /\ fpc' = "ok"
            /\ fret' = Ret(NoErr, UndefinedData)
            /\ UNCHANGED <<attempts, timers, inflight>>
  /\ elapsed' = 0
  /\ UNCHANGED <<retries, errs>>
  /\ UNCHANGED <<useMockData, cache>>
  /\ UNCHANGED callVars
  /\ UNCHANGED <<helperVars, debounceVars, storeVars, appVars>>

\* time passes while an attempt is awaited; a pending timer fires at its deadline
Tick ==
  /\ InAttempt
  /\ IF attempt \in timers
       THEN elapsed < TimeoutMs /\ elapsed' = Min(elapsed + TickMs, TimeoutMs)
       ELSE elapsed < MaxElapsed /\ elapsed' = elapsed + TickMs
  /\ UNCHANGED <<fpc, retries, attempt, attempts, timers, delays, errs, inflight, fret>>
  /\ UNCHANGED <<useMockData, cache>>
  /\ UNCHANGED callVars
  /\ UNCHANGED <<helperVars, debounceVars, storeVars, appVars>>

----------------------------------------------------------------------------
(* fetchCounties, fetchAreasByCounty *)

\* what fetchCounties returns once its _fetchJSON call has ended: the catch
\* answers with the built-in list; otherwise (data && data.counties) or []
fetchCounties(threw, data) ==
  IF threw THEN [isArray |-> TRUE, list |-> getMockCounties]
  ELSE IF data.kind = "array" THEN [isArray |-> TRUE, list |-> data.items]
  ELSE IF data.kind = "nonarray" THEN [isArray |-> FALSE, list |-> <<>>]
  ELSE [isArray |-> TRUE, list |-> <<>>]

\* county records without the county field
CountyRowsNoCounty(list) ==
  [i \in 1..Len(list) |->
     Rec(list[i].name, list[i].code, "county", Undefined, Undefined)]

\* county records pushed back to front
CountyRowsReversed(list) ==
  [i \in 1..Len(list) |->
     Rec(list[Len(list) + 1 - i].name, list[Len(list) + 1 - i].code, "county",
         list[Len(list) + 1 - i].name, Undefined)]

\* counties.forEach(county => allAreas.push({... county: county.name}))
CountyRows(list) ==
  [i \in 1..Len(list) |->
     Rec(list[i].name, list[i].code, "county", list[i].name, Undefined)]

\* forEach is not a function on a non-array; county.name throws on null
ForEachThrows(cl) ==
  ~cl.isArray \/ \E i \in 1..Len(cl.list) : cl.list[i].isNull

WardRows(c, countyName) ==
  [j \in 1..Len(c.wards) |->
     Rec(c.wards[j].name, c.wards[j].code, "ward", countyName, c.name)]

RECURSIVE AreaRows(_, _)
AreaRows(items, countyName) ==
  IF items = <<>> THEN <<>>
  ELSE << Rec(Head(items).name, Head(items).code, "constituency", countyName, Undefined) >>
       \o WardRows(Head(items), countyName)
       \o AreaRows(Tail(items), countyName)

\* data.constituencies throws on null/undefined data, forEach on a non-array,
\* constituency.name on a null element
ProcessThrows(data) ==
  \/ data.kind \in {"null", "undefined", "nonarray"}
  \/ data.kind = "array" /\ \E i \in 1..Len(data.items) : data.items[i].isNull

\* a catch that answers with the built-in rows of the county
fetchAreasByCountyMockOnError(threw, data, countyName) ==
  IF threw \/ ProcessThrows(data)
    THEN [failed |-> TRUE,
          rows |-> SelectSeq(getComprehensiveMockData,
                             LAMBDA r : r.county = countyName /\ r.type # "county")]
  ELSE IF data.kind = "array"
    THEN [failed |-> FALSE, rows |-> AreaRows(data.items, countyName)]
    ELSE [failed |-> FALSE, rows |-> <<>>]

\* what fetchAreasByCounty returns once its _fetchJSON call has ended
fetchAreasByCounty(threw, data, countyName) ==
  IF threw \/ ProcessThrows(data) THEN [failed |-> TRUE, rows |-> <<>>]
  ELSE IF data.kind = "array"
    THEN [failed |-> FALSE, rows |-> AreaRows(data.items, countyName)]
    ELSE [failed |-> FALSE, rows |-> <<>>]

----------------------------------------------------------------------------
(* fetchAllAreas *)

NoCache == [has |-> FALSE, value |-> <<>>]
Cached(v) == [has |-> TRUE, value |-> v]

\* a lookup that never hits
CacheNever(c) == FALSE

\* this.cache.has('allAreas')
CacheHas(c) == c.has

\* a catch that lets the error through
FetchAllAreasRethrow == [outcome |-> "threw", result |-> <<>>]

\* the outer catch: return this.getComprehensiveMockData()
FetchAllAreasCatch == [outcome |-> "returned", result |-> getComprehensiveMockData]

\* the for..of loop visits the list front to back
NextIndex(i) == i + 1

\* fetchAllAreas up to its first await
CallFetchAllAreas ==
  /\ pc \in {"idle", "done"}
  /\ calls < MaxCalls
  /\ calls' = calls + 1
  /\ sublog' = <<>>
  /\ countyListFailed' = FALSE
  /\ counties' = <<>>
  /\ allAreas' = <<>>
  /\ idx' = 0
  /\ IF useMockData
       THEN /\ pc' = "done"
            /\ path' = "mock"
            /\ outcome' = "returned"
            /\ result' = getComprehensiveMockData
            /\ requests' = <<>>
            /\ UNCHANGED fetchVars
       ELSE IF CacheHas(cache)
         THEN /\ pc' = "done"
              /\ path' = "cache"
              /\ outcome' = "returned"
              /\ result' = cache.value
              /\ requests' = <<>>
              /\ UNCHANGED fetchVars
         ELSE /\ pc' = "counties"
              /\ path' = "none"
              /\ outcome' = "none"
              /\ result' = <<>>
              /\ requests' = <<"counties">>
              /\ BeginFetchJSON(CallerRetries)
  /\ UNCHANGED <<useMockData, cache>>
  /\ UNCHANGED <<helperVars, debounceVars, storeVars, appVars>>

\* fetchCounties resumes after _fetchJSON, then fetchAllAreas runs up to the
\* first fetchAreasByCounty await (or to its return)
ResumeFetchCounties ==
  /\ pc = "counties"
  /\ fpc \in {"ok", "fail"}
  /\ countyListFailed' = (fpc = "fail")
  /\ LET cl == fetchCounties(fpc = "fail", fret.data)
         rows == CountyRows(cl.list)
     IN IF ForEachThrows(cl)
          THEN /\ pc' = "done"
               /\ path' = "fallback"
               /\ outcome' = FetchAllAreasCatch.outcome
               /\ result' = FetchAllAreasCatch.result
               /\ EndFetchJSON
               /\ UNCHANGED <<cache, counties, allAreas, idx, requests>>
          ELSE IF cl.list = <<>>
            THEN /\ pc' = "done"
                 /\ path' = "assembled"
                 /\ outcome' = "returned"
                 /\ result' = rows
                 /\ cache' = Cached(rows)
                 /\ allAreas' = rows
                 /\ EndFetchJSON
                 /\ UNCHANGED <<counties, idx, requests>>
            ELSE /\ pc' = "areas"
                 /\ counties' = cl.list
                 /\ allAreas' = rows
                 /\ idx' = NextIndex(0)
                 /\ requests' = Append(requests, cl.list[NextIndex(0)].name)
                 /\ BeginFetchJSON(CallerRetries)
                 /\ UNCHANGED <<cache, path, outcome, result>>
  /\ UNCHANGED <<useMockData, calls, sublog>>
  /\ UNCHANGED <<helperVars, debounceVars, storeVars, appVars>>

\* fetchAreasByCounty resumes after _fetchJSON, then the loop of fetchAllAreas
\* runs up to the next await (or past the loop to cache.set and return)
ResumeFetchAreasByCounty ==
  /\ pc = "areas"
  /\ fpc \in {"ok", "fail"}
  /\ LET r == fetchAreasByCounty(fpc = "fail", fret.data, counties[idx].name)
         all == allAreas \o r.rows
     IN /\ allAreas' = all
        /\ sublog' = Append(sublog, [threw |-> fpc = "fail", data |-> fret.data])
        /\ IF idx < Len(counties)
             THEN /\ idx' = NextIndex(idx)
                  /\ requests' = Append(requests, counties[NextIndex(idx)].name)
                  /\ BeginFetchJSON(CallerRetries)
                  /\ UNCHANGED <<cache, pc, path, outcome, result>>
             ELSE /\ pc' = "done"
                  /\ path' = "assembled"
                  /\ outcome' = "returned"
                  /\ result' = all
                  /\ cache' = Cached(all)
                  /\ EndFetchJSON
                  /\ UNCHANGED <<idx, requests>>
  /\ UNCHANGED <<useMockData, counties, calls, countyListFailed>>
  /\ UNCHANGED <<helperVars, debounceVars, storeVars, appVars>>

\* a caller invokes _fetchJSON(url, {}, 8000, r) on its own
CallFetchJSON ==
  /\ pc = "idle"
  /\ calls < MaxCalls
  /\ calls' = calls + 1
  /\ pc' = "direct"
  /\ \E r \in 0..MaxRetriesArg : BeginFetchJSON(r)
  /\ UNCHANGED <<useMockData, cache, counties, allAreas, idx, path, outcome, result,
                 requests, sublog, countyListFailed>>
  /\ UNCHANGED <<helperVars, debounceVars, storeVars, appVars>>

\* that caller takes the result
ReturnFetchJSON ==
  /\ pc = "direct"
  /\ fpc \in {"ok", "fail"}
  /\ pc' = "idle"
  /\ EndFetchJSON
  /\ UNCHANGED <<useMockData, cache, counties, allAreas, idx, path, outcome, result,
                 calls, requests, sublog, countyListFailed>>
  /\ UNCHANGED <<helperVars, debounceVars, storeVars, appVars>>

\* clearCache
ClearCache ==
  /\ cache' = NoCache
  /\ UNCHANGED <<useMockData>>
  /\ UNCHANGED callVars
  /\ UNCHANGED fetchVars
  /\ UNCHANGED <<helperVars, debounceVars, storeVars, appVars>>

----------------------------------------------------------------------------
(* Strings.  A string is a sequence of characters; the operators below      *)
(* rebuild what the JavaScript string methods used by the helpers do on     *)
(* the characters that occur here (letters, space, '-', '/').               *)

UpperLetters == "ABCDEFGHIJKLMNOPQRSTUVWXYZ"
LowerLetters == "abcdefghijklmnopqrstuvwxyz"

CharAt(s, i) == SubSeq(s, i, i)
Rest(s) == SubSeq(s, 2, Len(s))

\* position of the character c in s, 0 when it does not occur
IndexOf(c, s) ==
  IF \E i \in 1..Len(s) : CharAt(s, i) = c
    THEN CHOOSE i \in 1..Len(s) : CharAt(s, i) = c
    ELSE 0

\* the characters that occur in names, counties and search terms
Alphabet == " &-/;" \o UpperLetters \o LowerLetters
Chars == {CharAt(Alphabet, i) : i \in 1..Len(Alphabet)}

\* UTF-16 code unit of a character
CodeUnitOf ==
  [c \in Chars |->
     IF c = " " THEN 32
     ELSE IF c = "&" THEN 38
     ELSE IF c = "-" THEN 45
     ELSE IF c = "/" THEN 47
     ELSE IF c = ";" THEN 59
     ELSE IF IndexOf(c, UpperLetters) > 0 THEN 64 + IndexOf(c, UpperLetters)
     ELSE 96 + IndexOf(c, LowerLetters)]

CodeUnit(c) == CodeUnitOf[c]

\* a character in lower case
LowerOf ==
  [c \in Chars |->
     IF IndexOf(c, UpperLetters) > 0
       THEN CharAt(LowerLetters, IndexOf(c, UpperLetters))
       ELSE c]

\* String.prototype.toLowerCase
RECURSIVE toLowerCase(_)
toLowerCase(s) ==
  IF s = "" THEN ""
  ELSE LowerOf[CharAt(s, 1)] \o toLowerCase(Rest(s))

\* String.prototype.includes
includes(s, t) ==
  \E i \in 1..(Len(s) - Len(t) + 1) : SubSeq(s, i, i + Len(t) - 1) = t

\* String.prototype.trim
RECURSIVE trimStart(_)
trimStart(s) ==
  IF s # "" /\ CharAt(s, 1) = " " THEN trimStart(Rest(s)) ELSE s

RECURSIVE trimEnd(_)
trimEnd(s) ==
  IF s # "" /\ CharAt(s, Len(s)) = " " THEN trimEnd(SubSeq(s, 1, Len(s) - 1)) ELSE s

trim(s) == trimEnd(trimStart(s))

\* the order Array.prototype.sort() uses without a comparator: by code units
RECURSIVE CodeUnitLess(_, _)
CodeUnitLess(a, b) ==
  IF b = "" THEN FALSE
  ELSE IF a = "" THEN TRUE
  ELSE IF CodeUnit(CharAt(a, 1)) # CodeUnit(CharAt(b, 1))
    THEN CodeUnit(CharAt(a, 1)) < CodeUnit(CharAt(b, 1))
    ELSE CodeUnitLess(Rest(a), Rest(b))

\* String.prototype.localeCompare, default collation: first by letters
\* regardless of case (space and punctuation before letters), then lower
\* case before upper case at the first difference
PrimaryWeightOf ==
  [c \in Chars |->
     IF c = " " THEN 1
     ELSE IF c = "-" THEN 2
     ELSE IF c = ";" THEN 3
     ELSE IF c = "/" THEN 4
     ELSE IF c = "&" THEN 5
     ELSE IF IndexOf(c, UpperLetters) > 0 THEN 10 + IndexOf(c, UpperLetters)
     ELSE 10 + IndexOf(c, LowerLetters)]

PrimaryWeight(c) == PrimaryWeightOf[c]

RECURSIVE PrimaryCompare(_, _)
PrimaryCompare(a, b) ==
  IF a = "" /\ b = "" THEN 0
  ELSE IF a = "" THEN -1
  ELSE IF b = "" THEN 1
  ELSE IF PrimaryWeight(CharAt(a, 1)) < PrimaryWeight(CharAt(b, 1)) THEN -1
  ELSE IF PrimaryWeight(CharAt(a, 1)) > PrimaryWeight(CharAt(b, 1)) THEN 1
  ELSE PrimaryCompare(Rest(a), Rest(b))

RECURSIVE CaseCompare(_, _)
CaseCompare(a, b) ==
  IF a = "" \/ b = "" THEN 0
  ELSE IF CharAt(a, 1) = CharAt(b, 1) THEN CaseCompare(Rest(a), Rest(b))
  ELSE IF LowerOf[CharAt(a, 1)] = CharAt(a, 1) THEN -1
  ELSE 1

localeCompare(a, b) ==
  IF PrimaryCompare(a, b) # 0 THEN PrimaryCompare(a, b) ELSE CaseCompare(a, b)

----------------------------------------------------------------------------
(* DataService helpers and App.applyFilters *)

(* Bounds of the helper inputs *)
MaxLen == 3            \* length of a generated record collection

\* the four records of the statistics and search scenario
Nairobi == Rec("Nairobi", Undefined, "county", Undefined, Undefined)
Westlands == Rec("Westlands", Undefined, "constituency", "Nairobi", Undefined)
Parklands == Rec("Parklands", Undefined, "ward", "Nairobi", "Westlands")
Highridge == Rec("Highridge", Undefined, "ward", "Nairobi", "Westlands")
Scenario == <<Nairobi, Westlands, Parklands, Highridge>>

\* records a collection is drawn from: the scenario's, a constituency of
\* another county, and a ward that shares name and type with Parklands
\* and has an empty county
Changamwe == Rec("Changamwe", Undefined, "constituency", "Mombasa", Undefined)
ParklandsToo == Rec("Parklands", Undefined, "ward", "", "Starehe")
RecordPool == {Nairobi, Westlands, Parklands, Changamwe, ParklandsToo}

Collections == SeqsUpTo(RecordPool, MaxLen) \cup {Scenario}

SortKeys == {"name", "name-desc", "type", "code"}
SearchValues == {"", "park", "PARK", "park ", " ", "nai"}
CountyValues == {"", "Nairobi"}
TypeValues == {"", "ward"}
SortValues == {"name", "type"}

\* Array.prototype.filter(item => item.type === t).length
RECURSIVE CountType(_, _)
CountType(data, t) ==
  IF data = <<>> THEN 0
  ELSE (IF Head(data).type = t THEN 1 ELSE 0) + CountType(Tail(data), t)

\* the same with the wards counted as everything that is not a county
calculateStatisticsWardsRest(data) ==
  [counties |-> CountType(data, "county"),
   constituencies |-> CountType(data, "constituency"),
   wards |-> Len(data) - CountType(data, "county"),
   total |-> Len(data)]

calculateStatistics(data) ==
  [counties |-> CountType(data, "county"),
   constituencies |-> CountType(data, "constituency"),
   wards |-> CountType(data, "ward"),
   total |-> Len(data)]

NoStats == [counties |-> 0, constituencies |-> 0, wards |-> 0, total |-> 0]

\* new Set(array): the distinct values in the order of their first occurrence
RECURSIVE SetFrom(_)
SetFrom(s) ==
  IF s = <<>> THEN <<>>
  ELSE LET init == SetFrom(SubSeq(s, 1, Len(s) - 1))
           x == s[Len(s)]
       IN IF \E i \in 1..Len(init) : init[i] = x THEN init ELSE Append(init, x)

\* Array.prototype.sort() without a comparator
InsertDefault(x, t) ==
  LET n == Cardinality({i \in 1..Len(t) : ~CodeUnitLess(x, t[i])})
  IN SubSeq(t, 1, n) \o <<x>> \o SubSeq(t, n + 1, Len(t))

RECURSIVE SortDefault(_)
SortDefault(s) ==
  IF s = <<>> THEN <<>>
  ELSE InsertDefault(s[Len(s)], SortDefault(SubSeq(s, 1, Len(s) - 1)))

CountyOf(item) == item.county

\* data.map(item => item.county)
RECURSIVE MapCounty(_)
MapCounty(data) ==
  IF data = <<>> THEN <<>> ELSE <<CountyOf(Head(data))>> \o MapCounty(Tail(data))

\* the same without the Set
getUniqueCountiesNoSet(data) ==
  SortDefault(MapCounty(SelectSeq(data, LAMBDA item : ~Falsy(item.county))))

getUniqueCounties(data) ==
  SortDefault(SetFrom(MapCounty(SelectSeq(data, LAMBDA item : ~Falsy(item.county)))))

typeOrder(t) ==
  CASE t = "county" -> 1
    [] t = "constituency" -> 2
    [] t = "ward" -> 3

CompareName(a, b) == localeCompare(a.name, b.name)

\* the same with the two names in the order of 'name'
CompareNameDescAsc(a, b) == localeCompare(a.name, b.name)

CompareNameDesc(a, b) == localeCompare(b.name, a.name)

\* the same without the tie-break on the name
CompareTypeOnly(a, b) == typeOrder(a.type) - typeOrder(b.type)

CompareType(a, b) ==
  IF typeOrder(a.type) - typeOrder(b.type) # 0
    THEN typeOrder(a.type) - typeOrder(b.type)
    ELSE localeCompare(a.name, b.name)

Compare(sortBy, a, b) ==
  CASE sortBy = "name" -> CompareName(a, b)
    [] sortBy = "name-desc" -> CompareNameDesc(a, b)
    [] sortBy = "type" -> CompareType(a, b)

\* an insertion that puts x before the elements it ties with
InsertBeforeTies(sortBy, x, t) ==
  LET n == Cardinality({i \in 1..Len(t) : Compare(sortBy, t[i], x) < 0})
  IN SubSeq(t, 1, n) \o <<x>> \o SubSeq(t, n + 1, Len(t))

\* Array.prototype.sort(compare) is stable: x goes behind the elements of
\* the sorted t that do not come after it
Insert(sortBy, x, t) ==
  LET n == Cardinality({i \in 1..Len(t) : Compare(sortBy, t[i], x) <= 0})
  IN SubSeq(t, 1, n) \o <<x>> \o SubSeq(t, n + 1, Len(t))

RECURSIVE StableSort(_, _)
StableSort(sortBy, s) ==
  IF s = <<>> THEN <<>>
  ELSE Insert(sortBy, s[Len(s)], StableSort(sortBy, SubSeq(s, 1, Len(s) - 1)))

Sorted(data, sortBy) ==
  IF sortBy \in {"name", "name-desc", "type"} THEN StableSort(sortBy, data) ELSE data

\* the same sorting the array it was handed
sortDataInPlace(data, sortBy) ==
  [data |-> Sorted(data, sortBy), sorted |-> Sorted(data, sortBy), fresh |-> FALSE]

\* data: what the argument holds after the call; sorted: what is returned;
\* fresh: the returned array is the copy [...data], not the argument
sortData(data, sortBy) ==
  [data |-> data, sorted |-> Sorted(data, sortBy), fresh |-> TRUE]

\* the search term as applyFilters derives it from the input's value
SearchTerm(value, trims) ==
  IF trims THEN trim(toLowerCase(value)) ELSE toLowerCase(value)

\* the same comparing the name as it is written
matchesSearchCased(item, searchTerm) ==
  \/ searchTerm = ""
  \/ includes(item.name, searchTerm)
  \/ ~Falsy(item.county) /\ includes(toLowerCase(item.county), searchTerm)

matchesSearch(item, searchTerm) ==
  \/ searchTerm = ""
  \/ includes(toLowerCase(item.name), searchTerm)
  \/ ~Falsy(item.county) /\ includes(toLowerCase(item.county), searchTerm)

matchesCounty(item, selectedCounty) ==
  selectedCounty = "" \/ item.county = selectedCounty

matchesType(item, selectedType) ==
  selectedType = "" \/ item.type = selectedType

\* the same keeping a record that meets any of the three
KeepsAny(item, searchTerm, selectedCounty, selectedType) ==
  \/ matchesSearch(item, searchTerm)
  \/ matchesCounty(item, selectedCounty)
  \/ matchesType(item, selectedType)

Keeps(item, searchTerm, selectedCounty, selectedType) ==
  /\ matchesSearch(item, searchTerm)
  /\ matchesCounty(item, selectedCounty)
  /\ matchesType(item, selectedType)

\* this.currentData.filter(item => ...)
RECURSIVE Filter(_, _, _, _)
Filter(data, searchTerm, selectedCounty, selectedType) ==
  IF data = <<>> THEN <<>>
  ELSE (IF Keeps(Head(data), searchTerm, selectedCounty, selectedType)
          THEN <<Head(data)>> ELSE <<>>)
       \o Filter(Tail(data), searchTerm, selectedCounty, selectedType)

NoCrit == [search |-> "", county |-> "", type |-> ""]

HelperFrame == UNCHANGED <<serviceVars, debounceVars, storeVars, appVars, trimSearch>>

\* one helper is applied to the collection of a behaviour; sortData may
\* then be applied to its own result
DoCalculateStatistics ==
  /\ op = "none"
  /\ stats' = calculateStatistics(R)
  /\ op' = "calculateStatistics"
  /\ arg' = R
  /\ key' = "" /\ crit' = NoCrit /\ filtered' = <<>>
  /\ out' = <<>> /\ outFresh' = FALSE /\ uniq' = <<>>
  /\ UNCHANGED R
  /\ HelperFrame

DoGetUniqueCounties ==
  /\ op = "none"
  /\ uniq' = getUniqueCounties(R)
  /\ op' = "getUniqueCounties"
  /\ arg' = R
  /\ key' = "" /\ crit' = NoCrit /\ filtered' = <<>>
  /\ out' = <<>> /\ outFresh' = FALSE /\ stats' = NoStats
  /\ UNCHANGED R
  /\ HelperFrame

DoSortData ==
  \E sortBy \in SortKeys :
    /\ op = "none"
    /\ arg' = R
    /\ R' = sortData(R, sortBy).data
    /\ out' = sortData(R, sortBy).sorted
    /\ outFresh' = sortData(R, sortBy).fresh
    /\ key' = sortBy
    /\ op' = "sortData"
    /\ crit' = NoCrit /\ filtered' = <<>> /\ stats' = NoStats /\ uniq' = <<>>
    /\ HelperFrame

\* sortData applied to what the last sortData call returned, same key
DoSortAgain ==
  /\ op = "sortData"
  /\ arg' = out
  /\ out' = sortData(out, key).sorted
  /\ outFresh' = sortData(out, key).fresh
  /\ op' = "sortDataAgain"
  /\ UNCHANGED <<R, key, crit, filtered, stats, uniq>>
  /\ HelperFrame

applyFilters ==
  \E value \in SearchValues, selectedCounty \in CountyValues,
     selectedType \in TypeValues, sortBy \in SortValues :
    LET searchTerm == SearchTerm(value, trimSearch)
        filteredNow == Filter(R, searchTerm, selectedCounty, selectedType)
    IN /\ op = "none"
       /\ crit' = [search |-> value, county |-> selectedCounty, type |-> selectedType]
       /\ key' = sortBy
       /\ filtered' = filteredNow
       /\ stats' = IF trimSearch THEN calculateStatistics(filteredNow) ELSE NoStats
       /\ out' = sortData(filteredNow, sortBy).sorted
       /\ outFresh' = sortData(filteredNow, sortBy).fresh
       /\ arg' = R
       /\ op' = "applyFilters"
       /\ uniq' = <<>>
       /\ UNCHANGED R
       /\ HelperFrame

----------------------------------------------------------------------------
(* debounce(func, wait) of utils/helpers.js, as App.setupEventListeners     *)
(* uses it on the search input                                              *)

(* Bounds of the debounce scenario *)
MaxTriggers == 3       \* calls of the debounced function in one behaviour
ClockStep == 50        \* granularity of the clock, ms
MaxNow == 900          \* the clock stops here

(* Program constant *)
DebounceWait == 300

NoTimer == 0

Timer(id, due) == [id |-> id, due |-> due]

\* a clearTimeout that leaves the timer pending
clearTimeoutNoop(timerSet, id) == timerSet

\* clearTimeout(id): an unknown or undefined id is ignored
clearTimeout(timerSet, id) == {t \in timerSet : t.id # id}

\* setTimeout(later, wait): the id of the new timer is the call's number
setTimeout(timerSet, id, wait) == timerSet \cup {Timer(id, now + wait)}

\* the debounced function is called
executedFunction ==
  /\ Len(triggers) < MaxTriggers
  /\ triggers' = Append(triggers, now)
  /\ pending' = setTimeout(clearTimeout(pending, timeout), Len(triggers) + 1, DebounceWait)
  /\ timeout' = Len(triggers) + 1
  /\ UNCHANGED <<now, invocations>>
  /\ UNCHANGED <<serviceVars, helperVars, storeVars, appVars>>

\* a timer is due: const later
later ==
  \E t \in pending :
    /\ t.due <= now
    /\ pending' = clearTimeout(pending \ {t}, timeout)
    /\ invocations' = Append(invocations, now)
    /\ UNCHANGED <<now, timeout, triggers>>
    /\ UNCHANGED <<serviceVars, helperVars, storeVars, appVars>>

\* time passes, never beyond the moment a pending timer is due
Elapse ==
  /\ now < MaxNow
  /\ \A t \in pending : t.due > now
  /\ now' = IF \E t \in pending : t.due < now + ClockStep
              THEN CHOOSE d \in {t.due : t \in pending} :
                     \A t \in pending : d <= t.due
              ELSE now + ClockStep
  /\ UNCHANGED <<timeout, pending, triggers, invocations>>
  /\ UNCHANGED <<serviceVars, helperVars, storeVars, appVars>>

----------------------------------------------------------------------------
(* StorageManager of utils/StorageManager.js: the preferences entry of      *)
(* localStorage                                                             *)

(* Bounds of the preference store scenario *)
StoreTickMs == 302400000   \* granularity of the wall clock, half the freshness window
MaxClockMs == 1209600000   \* the wall clock stops here

(* Program constant *)
MaxAgeMs == 7 * 24 * 60 * 60 * 1000

Prefs(s, c, t, o) == [search |-> s, county |-> c, type |-> t, sort |-> o]
NoPrefs == Prefs("", "", "", "")

\* what localStorage holds under preferencesKey: nothing, the JSON text
\* savePreferences wrote, or a text JSON.parse rejects
StoredEntry(p, ts) == [has |-> TRUE, parses |-> TRUE, preferences |-> p, timestamp |-> ts]
NoEntry == [has |-> FALSE, parses |-> FALSE, preferences |-> NoPrefs, timestamp |-> 0]
GarbageEntry == [has |-> TRUE, parses |-> FALSE, preferences |-> NoPrefs, timestamp |-> 0]

\* what a StorageManager method handed back: it threw, or it returned
\* true, false, null or a preferences object
SRet(flag, p) == [threw |-> FALSE, flag |-> flag, preferences |-> p]
SThrew == [threw |-> TRUE, flag |-> "none", preferences |-> NoPrefs]
NoCall == [op |-> "none", before |-> NoEntry, at |-> 0, ok |-> FALSE, accepts |-> FALSE,
           ret |-> SRet("none", NoPrefs), after |-> NoEntry]

\* sanitizeHTML on a preference string: the markup-significant '&' comes
\* back as the entity, the other characters used here as they are
RECURSIVE sanitizeHTML(_)
sanitizeHTML(str) ==
  IF str = "" THEN ""
  ELSE (IF SubSeq(str, 1, 1) = "&" THEN "&amp;" ELSE SubSeq(str, 1, 1))
       \o sanitizeHTML(SubSeq(str, 2, Len(str)))

SanitizedPrefs(p) ==
  Prefs(sanitizeHTML(p.search), sanitizeHTML(p.county),
        sanitizeHTML(p.type), sanitizeHTML(p.sort))

\* a staleness test that already rejects an entry of exactly the limit
IsStaleAtLimit(t, ts) == t - ts >= MaxAgeMs

\* Date.now() - data.timestamp > maxAge
IsStale(t, ts) == t - ts > MaxAgeMs

\* a catch that lets the error through
CatchStorageRethrow(r, fallback) == r

\* the catch blocks of the three methods: an error becomes the fallback value
CatchStorage(r, fallback) ==
  IF r.ret.threw THEN [r EXCEPT !.ret = SRet(fallback, NoPrefs)] ELSE r

\* each method yields what it returns and what the entry is afterwards;
\* ok: isStorageAvailable(); writes: does localStorage accept the write
savePreferences(entry, preferences, t, ok, writes) ==
  IF ~ok THEN [ret |-> SRet("false", NoPrefs), entry |-> entry]
  ELSE CatchStorage(IF writes
                      THEN [ret |-> SRet("true", NoPrefs),
                            entry |-> StoredEntry(preferences, t)]
                      ELSE [ret |-> SThrew, entry |-> entry],
                    "false")

clearPreferences(entry, ok) ==
  IF ~ok THEN [ret |-> SRet("false", NoPrefs), entry |-> entry]
  ELSE CatchStorage([ret |-> SRet("true", NoPrefs), entry |-> NoEntry], "false")

loadPreferences(entry, t, ok) ==
  IF ~ok THEN [ret |-> SRet("null", NoPrefs), entry |-> entry]
  ELSE CatchStorage(
         IF ~entry.has THEN [ret |-> SRet("null", NoPrefs), entry |-> entry]
         ELSE IF ~entry.parses THEN [ret |-> SThrew, entry |-> entry]
         ELSE IF IsStale(t, entry.timestamp)
           THEN [ret |-> SRet("null", NoPrefs), entry |-> clearPreferences(entry, ok).entry]
           ELSE [ret |-> SRet("preferences", SanitizedPrefs(entry.preferences)),
                 entry |-> entry],
         "null")

\* preferences a caller saves
SavedPrefs == {Prefs("park", "Nairobi", "", "name"), Prefs("R&B", "", "ward", "type")}

StoreFrame == UNCHANGED <<serviceVars, helperVars, debounceVars, appVars>>

DoSavePreferences ==
  \E p \in SavedPrefs, writes \in BOOLEAN :
    /\ stored' = savePreferences(stored, p, clock, storageOk, writes).entry
    /\ scall' = [op |-> "save", before |-> stored, at |-> clock, ok |-> storageOk,
                 accepts |-> writes,
                 ret |-> savePreferences(stored, p, clock, storageOk, writes).ret,
                 after |-> savePreferences(stored, p, clock, storageOk, writes).entry]
    /\ UNCHANGED <<storageOk, clock>>
    /\ StoreFrame

DoLoadPreferences ==
  /\ stored' = loadPreferences(stored, clock, storageOk).entry
  /\ scall' = [op |-> "load", before |-> stored, at |-> clock, ok |-> storageOk,
               accepts |-> TRUE,
               ret |-> loadPreferences(stored, clock, storageOk).ret,
               after |-> loadPreferences(stored, clock, storageOk).entry]
  /\ UNCHANGED <<storageOk, clock>>
  /\ StoreFrame

DoClearPreferences ==
  /\ stored' = clearPreferences(stored, storageOk).entry
  /\ scall' = [op |-> "clear", before |-> stored, at |-> clock, ok |-> storageOk,
               accepts |-> TRUE,
               ret |-> clearPreferences(stored, storageOk).ret,
               after |-> clearPreferences(stored, storageOk).entry]
  /\ UNCHANGED <<storageOk, clock>>
  /\ StoreFrame

\* something else writes the key: the text no longer parses
CorruptEntry ==
  /\ stored.has /\ stored.parses
  /\ stored' = GarbageEntry
  /\ UNCHANGED <<storageOk, clock, scall>>
  /\ StoreFrame

\* localStorage becomes unusable (disabled, quota full) or usable again
StorageToggles ==
  /\ storageOk' = ~storageOk
  /\ UNCHANGED <<stored, clock, scall>>
  /\ StoreFrame

\* the wall clock advances
WallClock ==
  /\ clock < MaxClockMs
  /\ clock' = clock + StoreTickMs
  /\ UNCHANGED <<stored, storageOk, scall>>
  /\ StoreFrame

----------------------------------------------------------------------------
(* App of index.js with the UIController: init, the retry handler and the   *)
(* listeners of the filter controls.  fetchAllAreas is the environment      *)
(* here: it hands back some collection; so is the DOM, whose missing        *)
(* elements make a lookup in loadData throw.                                *)

\* the results container: what it shows, and whether the retry button is in it
Ui(content, retry) == [content |-> content, retry |-> retry]
Blank == Ui("blank", FALSE)

\* UIController.showLoading
showLoading(u) == Ui("loading", FALSE)

\* a hideLoading that puts the loader up
hideLoadingShows(u) == Ui("loading", FALSE)

\* UIController.hideLoading: removes the loader if it is there
hideLoading(u) == IF u.content = "loading" THEN Blank ELSE u

\* a showError that never renders the button
showErrorNoRetry(u, showRetry) == Ui("error", FALSE)

\* UIController.showError(message, showRetry)
showError(u, showRetry) == Ui("error", showRetry)

\* UIController.renderResults
renderResults(u, data) == IF data = <<>> THEN Ui("empty", FALSE) ELSE Ui("results", FALSE)

\* the values of the four controls
Controls(s, c, t, o) == Prefs(s, c, t, o)
DefaultControls == Controls("", "", "", "name")

\* App.restorePreferences: a field is taken over when it is not empty
restorePreferences(ctl, ret) ==
  IF ret.flag = "preferences"
    THEN Controls(IF ret.preferences.search # "" THEN ret.preferences.search ELSE ctl.search,
                  IF ret.preferences.county # "" THEN ret.preferences.county ELSE ctl.county,
                  IF ret.preferences.type # "" THEN ret.preferences.type ELSE ctl.type,
                  IF ret.preferences.sort # "" THEN ret.preferences.sort ELSE ctl.sort)
    ELSE ctl

\* a filter that hands back the array itself when it keeps every record
filterArrayAlias(data, searchTerm, selectedCounty, selectedType) ==
  [items |-> Filter(data, searchTerm, selectedCounty, selectedType),
   fresh |-> Filter(data, searchTerm, selectedCounty, selectedType) # data]

\* Array.prototype.filter: the kept records in a new array
filterArray(data, searchTerm, selectedCounty, selectedType) ==
  [items |-> Filter(data, searchTerm, selectedCounty, selectedType), fresh |-> TRUE]

\* App.applyFilters on the current data and controls: view is
\* this.filteredData at the end, data what this.currentData holds then,
\* alias whether this.filteredData was at any point the array currentData
ApplyFilters(data, ctl, trims) ==
  LET f == filterArray(data, SearchTerm(ctl.search, trims), ctl.county, ctl.type)
      s == sortData(f.items, ctl.sort)
  IN [view |-> s.sorted,
      data |-> IF f.fresh THEN data ELSE s.data,
      alias |-> ~f.fresh]

\* what the last handler did
Last(h, failed, applied, saved, cleared) ==
  [handler |-> h, failed |-> failed, applied |-> applied, saved |-> saved, cleared |-> cleared]

AppCollections == {<<>>, Scenario}
SearchTyped == {"", "park"}
CountyChosen == {"", "Nairobi"}
TypeChosen == {"", "ward"}
SortChosen == {"name", "type"}

AppFrame == UNCHANGED <<serviceVars, helperVars, now, triggers, invocations,
                        storageOk, clock, scall, online>>

\* init() up to the await in loadData, or to its end when offline
AppInit ==
  /\ apc = "boot"
  /\ IF ~online
       THEN /\ ui' = hideLoading(showError(ui, TRUE))
            /\ retryHandler' = TRUE
            /\ apc' = "idle"
            /\ last' = Last("init", TRUE, FALSE, FALSE, FALSE)
       ELSE /\ ui' = showLoading(ui)
            /\ apc' = "initLoad"
            /\ UNCHANGED <<retryHandler, last>>
  /\ UNCHANGED <<listening, controls, currentData, loadedData, filteredData,
                 aliased, sinceReset, stored, pending, timeout>>
  /\ AppFrame

\* a click on the retry button: the handler up to the await in loadData
RetryClick ==
  /\ apc = "idle"
  /\ retryHandler
  /\ ui.retry
  /\ ui' = showLoading(ui)
  /\ apc' = "retryLoad"
  /\ UNCHANGED <<retryHandler, last, listening, controls, currentData, loadedData,
                 filteredData, aliased, sinceReset, stored, pending, timeout>>
  /\ AppFrame

\* fetchAllAreas resolves: the rest of loadData and of init or of the retry
\* handler, with the catch and the finally
LoadDataResume ==
  /\ apc \in {"initLoad", "retryLoad"}
  /\ \E data \in AppCollections, domThrows \in BOOLEAN :
       LET h == IF apc = "initLoad" THEN "init" ELSE "retry"
           loaded == loadPreferences(stored, clock, storageOk)
           ctl == restorePreferences(controls, loaded.ret)
           applied == ApplyFilters(data, ctl, trimSearch)
       IN IF domThrows
            THEN /\ currentData' = data
                 /\ loadedData' = data
                 /\ ui' = hideLoading(showError(ui, TRUE))
                 /\ retryHandler' = (retryHandler \/ h = "init")
                 /\ last' = Last(h, TRUE, FALSE, FALSE, FALSE)
                 /\ UNCHANGED <<listening, controls, filteredData, aliased, stored>>
            ELSE /\ loadedData' = data
                 /\ stored' = loaded.entry
                 /\ controls' = ctl
                 /\ listening' = TRUE
                 /\ currentData' = applied.data
                 /\ filteredData' = applied.view
                 /\ aliased' = applied.alias
                 /\ ui' = hideLoading(renderResults(ui, applied.view))
                 /\ last' = Last(h, FALSE, TRUE, FALSE, FALSE)
                 /\ UNCHANGED retryHandler
  /\ apc' = "idle"
  /\ UNCHANGED <<sinceReset, pending, timeout>>
  /\ AppFrame

\* a listener body that applies the filters and forgets the save
ApplyOnly(ctl, h) ==
  LET applied == ApplyFilters(currentData, ctl, trimSearch)
  IN /\ controls' = ctl
     /\ currentData' = applied.data
     /\ filteredData' = applied.view
     /\ aliased' = (aliased \/ applied.alias)
     /\ ui' = renderResults(ui, applied.view)
     /\ stored' = stored
     /\ last' = Last(h, FALSE, TRUE, FALSE, FALSE)

\* the body the change listeners and the debounced search share:
\* this.applyFilters(); this.savePreferences();
ApplyAndSave(ctl, h) ==
  LET applied == ApplyFilters(currentData, ctl, trimSearch)
  IN /\ controls' = ctl
     /\ currentData' = applied.data
     /\ filteredData' = applied.view
     /\ aliased' = (aliased \/ applied.alias)
     /\ ui' = renderResults(ui, applied.view)
     /\ stored' = savePreferences(stored, ctl, clock, storageOk, TRUE).entry
     /\ last' = Last(h, FALSE, TRUE, TRUE, FALSE)

Interactive == apc = "idle" /\ listening

CountyChange ==
  /\ Interactive
  /\ \E v \in CountyChosen \ {controls.county} :
       ApplyAndSave([controls EXCEPT !.county = v], "county")
  /\ sinceReset' = FALSE
  /\ UNCHANGED <<apc, retryHandler, listening, loadedData, pending, timeout>>
  /\ AppFrame

TypeChange ==
  /\ Interactive
  /\ \E v \in TypeChosen \ {controls.type} :
       ApplyAndSave([controls EXCEPT !.type = v], "type")
  /\ sinceReset' = FALSE
  /\ UNCHANGED <<apc, retryHandler, listening, loadedData, pending, timeout>>
  /\ AppFrame

SortChange ==
  /\ Interactive
  /\ \E v \in SortChosen \ {controls.sort} :
       ApplyAndSave([controls EXCEPT !.sort = v], "sort")
  /\ sinceReset' = FALSE
  /\ UNCHANGED <<apc, retryHandler, listening, loadedData, pending, timeout>>
  /\ AppFrame

\* the user edits the search box: the input event calls the debounced function
SearchInput ==
  /\ Interactive
  /\ \E v \in SearchTyped \ {controls.search} :
       controls' = [controls EXCEPT !.search = v]
  /\ pending' = setTimeout(clearTimeout(pending, timeout), Cardinality(pending) + 1, DebounceWait)
  /\ timeout' = Cardinality(pending) + 1
  /\ sinceReset' = FALSE
  /\ last' = Last("input", FALSE, FALSE, FALSE, FALSE)
  /\ UNCHANGED <<apc, ui, retryHandler, listening, currentData, loadedData,
                 filteredData, aliased, stored>>
  /\ AppFrame

\* the debounce timer fires: later() runs the search callback
DebouncedSearch ==
  /\ apc = "idle"
  /\ \E t \in pending :
       pending' = clearTimeout(pending \ {t}, timeout)
  /\ ApplyAndSave(controls, "search")
  /\ UNCHANGED <<apc, retryHandler, listening, loadedData, timeout, sinceReset>>
  /\ AppFrame

\* a click on the reset button or the Escape key: App.resetFilters
ResetFilters ==
  /\ Interactive
  /\ LET applied == ApplyFilters(currentData, DefaultControls, trimSearch)
     IN /\ controls' = DefaultControls
        /\ currentData' = applied.data
        /\ filteredData' = applied.view
        /\ aliased' = (aliased \/ applied.alias)
        /\ ui' = renderResults(ui, applied.view)
        /\ stored' = clearPreferences(stored, storageOk).entry
        /\ last' = Last("reset", FALSE, TRUE, FALSE, TRUE)
  /\ sinceReset' = TRUE
  /\ UNCHANGED <<apc, retryHandler, listening, loadedData, pending, timeout>>
  /\ AppFrame

----------------------------------------------------------------------------
(* Initial states *)
ServiceIdle ==
  /\ cache = NoCache
  /\ pc = "idle"
  /\ path = "none"
  /\ counties = <<>>
  /\ allAreas = <<>>
  /\ idx = 0
  /\ outcome = "none"
  /\ result = <<>>
  /\ calls = 0
  /\ requests = <<>>
  /\ sublog = <<>>
  /\ countyListFailed = FALSE
  /\ fpc = "idle"
  /\ retries = 0
  /\ attempt = 0
  /\ attempts = 0
  /\ timers = {}
  /\ elapsed = 0
  /\ delays = <<>>
  /\ errs = <<>>
  /\ inflight = 0
  /\ fret = NoRet

\* no helper has been applied
HelpersIdle ==
  /\ arg = <<>>
  /\ op = "none"
  /\ key = ""
  /\ crit = NoCrit
  /\ filtered = <<>>
  /\ out = <<>>
  /\ outFresh = FALSE
  /\ stats = NoStats
  /\ uniq = <<>>

\* the debounced function has been created and not called
DebounceIdle ==
  /\ now = 0
  /\ timeout = NoTimer
  /\ pending = {}
  /\ triggers = <<>>
  /\ invocations = <<>>

\* no StorageManager method has been called
StoreIdle ==
  /\ stored = NoEntry
  /\ storageOk = TRUE
  /\ clock = 0
  /\ scall = NoCall

\* the App has been constructed and init has not run
AppIdle ==
  /\ online = TRUE
  /\ apc = "boot"
  /\ ui = Blank
  /\ retryHandler = FALSE
  /\ listening = FALSE
  /\ controls = DefaultControls
  /\ currentData = <<>>
  /\ loadedData = <<>>
  /\ filteredData = <<>>
  /\ aliased = FALSE
  /\ last = Last("none", FALSE, FALSE, FALSE, FALSE)
  /\ sinceReset = FALSE

Init ==
  /\ useMockData \in BOOLEAN
  /\ ServiceIdle
  /\ R = <<>>
  /\ trimSearch = FALSE
  /\ HelpersIdle
  /\ DebounceIdle
  /\ StoreIdle
  /\ AppIdle

Next ==
  \/ CallFetchAllAreas
  \/ ResumeFetchCounties
  \/ ResumeFetchAreasByCounty
  \/ CallFetchJSON
  \/ ReturnFetchJSON
  \/ FetchResolve
  \/ FetchReject
  \/ TimerFire
  \/ BodyDone
  \/ BodyFail
  \/ BackoffElapsed
  \/ Tick
  \/ ClearCache

Spec == Init /\ [][Next]_vars

\* the helpers applied to a collection, in either App
InitHelpers ==
  /\ useMockData = TRUE
  /\ ServiceIdle
  /\ R \in Collections
  /\ trimSearch \in BOOLEAN
  /\ HelpersIdle
  /\ DebounceIdle
  /\ StoreIdle
  /\ AppIdle

NextHelpers ==
  \/ DoCalculateStatistics
  \/ DoGetUniqueCounties
  \/ DoSortData
  \/ DoSortAgain
  \/ applyFilters

SpecHelpers == InitHelpers /\ [][NextHelpers]_vars

\* the debounced search handler and the clock
InitDebounce ==
  /\ useMockData = TRUE
  /\ ServiceIdle
  /\ R = <<>>
  /\ trimSearch = FALSE
  /\ HelpersIdle
  /\ DebounceIdle
  /\ StoreIdle
  /\ AppIdle

NextDebounce ==
  \/ executedFunction
  \/ later
  \/ Elapse

SpecDebounce == InitDebounce /\ [][NextDebounce]_vars

\* the StorageManager called in any order while the clock runs and the
\* storage comes and goes
InitStore ==
  /\ useMockData = TRUE
  /\ ServiceIdle
  /\ R = <<>>
  /\ trimSearch = FALSE
  /\ HelpersIdle
  /\ DebounceIdle
  /\ StoreIdle
  /\ AppIdle

NextStore ==
  \/ DoSavePreferences
  \/ DoLoadPreferences
  \/ DoClearPreferences
  \/ CorruptEntry
  \/ StorageToggles
  \/ WallClock

SpecStore == InitStore /\ [][NextStore]_vars

\* entries an earlier visit may have left in localStorage: none, a fresh
\* one, a stale one, an unreadable one
EarlierEntries ==
  {NoEntry, GarbageEntry,
   StoredEntry(Prefs("R&B", "Nairobi", "ward", "type"), MaxClockMs - StoreTickMs),
   StoredEntry(Prefs("park", "", "", "name"), 0)}

\* the App from its construction on, in either variant of index.js
InitApp ==
  /\ useMockData = TRUE
  /\ ServiceIdle
  /\ R = <<>>
  /\ trimSearch \in BOOLEAN
  /\ HelpersIdle
  /\ DebounceIdle
  /\ stored \in EarlierEntries
  /\ storageOk \in BOOLEAN
  /\ clock = MaxClockMs
  /\ scall = NoCall
  /\ online \in BOOLEAN
  /\ apc = "boot"
  /\ ui = Blank
  /\ retryHandler = FALSE
  /\ listening = FALSE
  /\ controls = DefaultControls
  /\ currentData = <<>>
  /\ loadedData = <<>>
  /\ filteredData = <<>>
  /\ aliased = FALSE
  /\ last = Last("none", FALSE, FALSE, FALSE, FALSE)
  /\ sinceReset = FALSE

NextApp ==
  \/ AppInit
  \/ RetryClick
  \/ LoadDataResume
  \/ CountyChange
  \/ TypeChange
  \/ SortChange
  \/ SearchInput
  \/ DebouncedSearch
  \/ ResetFilters

SpecApp == InitApp /\ [][NextApp]_vars

\* fetchAllAreas settles, so the awaiting init or retry handler resumes
SpecAppLive == SpecApp /\ WF_vars(LoadDataResume)

----------------------------------------------------------------------------
(* Properties *)

Done == pc = "done"
Live == ~useMockData
AreaTypes == {"county", "constituency", "ward"}
Retryable(e) == e.name \in {"AbortError", "TypeError"}
LastErr == errs[Len(errs)]

(* C1: fetchAllAreas never fails to its caller: in mock and in live mode,   *)
(* whatever the network requests do, a completed call has returned a        *)
(* sequence of records and has never raised.                                *)
C1_NeverFails ==
  /\ outcome # "threw"
  /\ Done => /\ outcome = "returned"
             /\ \A i \in 1..Len(result) : result[i].type \in AreaTypes

\* a live call whose assembly raised internally and still returned
C1_Witness == Done /\ Live /\ path = "fallback" /\ outcome = "returned"

(* C2: in live mode, when the county-list request ends in failure,          *)
(* fetchAllAreas returns exactly the built-in dataset of                    *)
(* getComprehensiveMockData.                                                *)
C2_FallbackOnCountyListFailure ==
  (Done /\ Live /\ countyListFailed) => result = getComprehensiveMockData

(* C3: one _fetchJSON call issues at most retries+1 network attempts; when  *)
(* every attempt fails with a timeout or a transport error it issues        *)
(* exactly retries+1 attempts and fails with the error of the last one.     *)
C3_AttemptsBounded ==
  /\ attempts <= retries + 1
  /\ Len(errs) <= attempts
  /\ (Len(errs) = retries + 1 /\ fpc # "idle") =>
        /\ fpc = "fail"
        /\ attempts = retries + 1
        /\ fret.err = LastErr
  /\ (fpc = "fail" /\ \A i \in 1..Len(errs) : Retryable(errs[i])) =>
        /\ attempts = retries + 1
        /\ fret.err = LastErr

\* three timeouts with retries = 2
C3_Witness ==
  /\ fpc = "fail"
  /\ retries = 2
  /\ attempts = 3
  /\ errs = <<AbortError, AbortError, AbortError>>
  /\ fret.err = AbortError

ExpectedDelay(k) ==
  IF k = 0 THEN 1000 ELSE IF k = 1 THEN 2000 ELSE IF k = 2 THEN 4000 ELSE 8000

(* C4: the backoff waited after failed attempt k (from 0) and before        *)
(* attempt k+1 is min(1000*2^k, 8000) ms; no delay before the first attempt *)
(* and none after the final failed one: three timeouts with retries = 2     *)
(* wait 1000 ms then 2000 ms.                                               *)
C4_Backoff ==
  /\ \A k \in 1..Len(delays) : delays[k] = ExpectedDelay(k - 1)
  /\ fpc # "idle" => Len(delays) = attempts - 1
  /\ fpc = "fail" => Len(delays) = Len(errs) - 1
  /\ (fpc = "fail" /\ errs = <<AbortError, AbortError, AbortError>>) =>
        delays = <<1000, 2000>>

C4_Witness ==
  /\ fpc = "fail"
  /\ errs = <<AbortError, AbortError, AbortError>>
  /\ delays = <<1000, 2000>>

(* C5: an attempt is followed by another attempt exactly when it failed     *)
(* with a timeout or a transport error and retries remain; a non-success    *)
(* HTTP status or an unparsable body fails the call at once with that       *)
(* error, without a further attempt or a backoff delay.                     *)
C5_RetryOnlyNetwork ==
  /\ fpc = "backoff" => Retryable(LastErr) /\ Len(errs) <= retries
  /\ fpc = "fail" =>
        /\ ~(Retryable(LastErr) /\ Len(errs) <= retries)
        /\ fret.err = LastErr
        /\ Len(delays) = Len(errs) - 1
        /\ attempts = Len(errs)
  /\ \A i \in 1..(Len(errs) - 1) : Retryable(errs[i])
  /\ (Len(errs) > 0 /\ ~Retryable(LastErr)) => fpc = "fail"

\* a 404 on the first attempt
C5_Witness ==
  /\ fpc = "fail"
  /\ retries = 2
  /\ errs = <<HttpError(404)>>
  /\ attempts = 1
  /\ delays = <<>>

(* C6: each attempt, from issuing the request until its result or failure   *)
(* is produced, body reading included, is bounded by timeoutMs.             *)
C6_AttemptBounded == InAttempt => elapsed <= TimeoutMs

(* C7: in live mode, once a call has assembled and returned a collection,   *)
(* every later call returns that cached collection without a network        *)
(* request until clearCache; clearCache empties the cache and the next      *)
(* call issues network requests again.                                      *)
C7_CacheReuse ==
  [][ /\ (Live /\ calls' = calls + 1 /\ pc' # "direct") =>
           IF cache.has
             THEN /\ pc' = "done"
                  /\ result' = cache.value
                  /\ requests' = <<>>
                  /\ attempts' = attempts
                  /\ inflight' = inflight
                  /\ cache' = cache
             ELSE /\ pc' = "counties"
                  /\ requests' = <<"counties">>
                  /\ inflight' = inflight + 1
      /\ (pc # "done" /\ pc' = "done" /\ path' = "assembled") => cache' = Cached(result')
      /\ cache' # cache =>
           \/ pc # "done" /\ pc' = "done" /\ path' = "assembled"
           \/ cache' = NoCache /\ UNCHANGED <<callVars, fetchVars>>
    ]_vars

\* a later call served from the cache
C7_Witness == Done /\ Live /\ path = "cache" /\ cache.has /\ result = cache.value /\ requests = <<>>

C8_Failed(i) ==
  \/ sublog[i].threw
  \/ sublog[i].data.kind \in {"null", "undefined", "nonarray"}
  \/ \E k \in 1..Len(sublog[i].data.items) : sublog[i].data.items[k].isNull

RECURSIVE C8_Contrib(_)
C8_Contrib(i) ==
  IF i > Len(counties) THEN <<>>
  ELSE (IF ~C8_Failed(i) /\ sublog[i].data.kind = "array"
          THEN AreaRows(sublog[i].data.items, counties[i].name)
          ELSE <<>>)
       \o C8_Contrib(i + 1)

(* C8: in live mode a failed per-county sub-fetch does not abort the        *)
(* assembly: the returned collection holds the county record of every       *)
(* county of the list and the rows of every county whose sub-fetch          *)
(* succeeded, and nothing for a county whose sub-fetch failed.              *)
C8_PartialResults ==
  (Done /\ Live /\ path = "assembled") =>
     /\ Len(sublog) = Len(counties)
     /\ Len(result) >= Len(counties)
     /\ \A i \in 1..Len(counties) :
          /\ result[i].type = "county"
          /\ result[i].name = counties[i].name
          /\ result[i].code = counties[i].code
     /\ SubSeq(result, Len(counties) + 1, Len(result)) = C8_Contrib(1)

\* one county failed, another one delivered rows
C8_Witness ==
  /\ Done /\ Live /\ path = "assembled"
  /\ \E i, j \in 1..Len(sublog) :
       /\ sublog[i].threw
       /\ ~sublog[j].threw /\ sublog[j].data.kind = "array"
  /\ Len(result) > Len(counties)

RECURSIVE C9_InListOrder(_, _)
C9_InListOrder(rows, i) ==
  IF rows = <<>> THEN TRUE
  ELSE IF i > Len(counties) THEN FALSE
  ELSE IF Head(rows).county = counties[i].name /\ Head(rows).type # "county"
    THEN C9_InListOrder(Tail(rows), i)
    ELSE C9_InListOrder(rows, i + 1)

(* C9: within one live call the per-county sub-fetches are issued one at a  *)
(* time in county-list order, the next only after the previous completed,   *)
(* at most one request is in flight, and the result lists the county        *)
(* records in list order followed by each county's rows in list order.      *)
C9_Sequential ==
  /\ inflight <= 1
  /\ Len(requests) <= 1 + Len(counties)
  /\ \A k \in 1..Len(requests) :
       requests[k] = IF k = 1 THEN "counties" ELSE counties[k - 1].name
  /\ pc = "areas" => /\ Len(requests) = idx + 1
                     /\ Len(sublog) = idx - 1
                     /\ Len(sublog) = Len(requests) - 2
  /\ (Done /\ Live /\ path = "assembled") =>
       /\ Len(requests) = 1 + Len(counties)
       /\ \A i \in 1..Len(counties) :
            result[i].type = "county" /\ result[i].name = counties[i].name
       /\ C9_InListOrder(SubSeq(result, Len(counties) + 1, Len(result)), 1)

\* two different counties, both with rows
C9_Witness ==
  /\ Done /\ Live /\ path = "assembled"
  /\ Len(counties) >= 2
  /\ counties[1].name # counties[2].name
  /\ \E i, j \in 1..Len(result) :
       /\ result[i].type = "constituency" /\ result[i].county = counties[1].name
       /\ result[j].type = "constituency" /\ result[j].county = counties[2].name

(* C10 as stated: every county record of a returned collection has an       *)
(* empty or absent county field and an empty or absent constituency field.  *)
C10_CountyFieldsEmpty ==
  Done => \A i \in 1..Len(result) :
            result[i].type = "county" =>
              Falsy(result[i].county) /\ Falsy(result[i].constituency)

(* C10 amended: every county record of a returned collection (mock mode,    *)
(* live assembly or fallback) carries its own name in its county field and  *)
(* has no constituency field.                                               *)
C10_CountyOwnName ==
  Done => \A i \in 1..Len(result) :
            result[i].type = "county" =>
              result[i].county = result[i].name /\ result[i].constituency = Undefined

\* a live assembly that produced county records
C10_Witness ==
  /\ Done /\ Live /\ path = "assembled"
  /\ \E i \in 1..Len(result) : result[i].type = "county" /\ result[i].county = "Turkana"

(* C11: every record of a returned collection has a type among county,      *)
(* constituency and ward; every ward record has a non-empty county and a    *)
(* non-empty constituency; every constituency record has a non-empty county *)
(* and an empty or absent constituency.                                     *)
C11_RecordShape ==
  Done => \A i \in 1..Len(result) :
            /\ result[i].type \in AreaTypes
            /\ result[i].type = "ward" =>
                  ~Falsy(result[i].county) /\ ~Falsy(result[i].constituency)
            /\ result[i].type = "constituency" =>
                  ~Falsy(result[i].county) /\ Falsy(result[i].constituency)

----------------------------------------------------------------------------
(* Further properties of the DataService, under Spec *)

\* C25: the built-in dataset holds 5 counties, 11 constituencies and 55
\* wards, 71 records: calculateStatistics over what a mock-mode call returns
\* yields {counties: 5, constituencies: 11, wards: 55, total: 71}.
C25_MockDataScale ==
  (Done /\ path = "mock") =>
    calculateStatistics(result)
      = [counties |-> 5, constituencies |-> 11, wards |-> 55, total |-> 71]

\* C28: in live mode a collection is in the cache only if the county-list
\* request and every per-county request of its assembly succeeded; a
\* degraded assembly is not stored.
C28_CacheOnlyComplete ==
  (Done /\ Live /\ path = "assembled"
     /\ (countyListFailed \/ \E i \in 1..Len(sublog) : sublog[i].threw)) =>
    ~CacheHas(cache)

\* C29: at most one per-attempt timeout timer is armed at any moment, none
\* is armed during a backoff delay, and none is pending once the call has
\* returned or thrown.
C29_TimersCleared ==
  /\ Cardinality(timers) <= 1
  /\ fpc \in {"backoff", "ok", "fail", "idle"} => timers = {}

C29_Witness ==
  /\ fpc = "fail"
  /\ attempts = 3
  /\ Len(delays) = 2
  /\ LastErr = AbortError
  /\ timers = {}

----------------------------------------------------------------------------
(* Properties of the helpers, under SpecHelpers *)

TypeCount(s, t) == Cardinality({i \in 1..Len(s) : s[i].type = t})

\* C12: calculateStatistics(R).total is the number of records of R, each of
\* counties, constituencies and wards is the number of records of that type,
\* the three add up to total, and an empty R yields all zeros.
C12_StatisticsCounts ==
  op = "calculateStatistics" =>
    /\ stats.total = Len(R)
    /\ stats.counties = TypeCount(R, "county")
    /\ stats.constituencies = TypeCount(R, "constituency")
    /\ stats.wards = TypeCount(R, "ward")
    /\ stats.counties + stats.constituencies + stats.wards = stats.total
    /\ R = <<>> => stats = NoStats

C12_Witness ==
  /\ op = "calculateStatistics"
  /\ R = Scenario
  /\ stats = [counties |-> 1, constituencies |-> 1, wards |-> 2, total |-> 4]

\* C13: getUniqueCounties(R) is in ascending order, has no duplicates and no
\* empty strings, and holds exactly the distinct non-empty county values of
\* R; a record without a county contributes nothing.
C13_UniqueCounties ==
  op = "getUniqueCounties" =>
    /\ \A i, j \in 1..Len(uniq) : i < j => CodeUnitLess(uniq[i], uniq[j])
    /\ \A i \in 1..Len(uniq) : uniq[i] # ""
    /\ {uniq[i] : i \in 1..Len(uniq)}
         = {R[i].county : i \in 1..Len(R)} \ {"", Undefined}

C13_Witness ==
  /\ op = "getUniqueCounties"
  /\ R = <<Westlands, ParklandsToo, Changamwe>>
  /\ uniq = <<"Mombasa", "Nairobi">>

Occurrences(s, x) == Cardinality({i \in 1..Len(s) : s[i] = x})

IsPermutation(s, t) ==
  /\ Len(s) = Len(t)
  /\ \A i \in 1..Len(s) : Occurrences(s, s[i]) = Occurrences(t, s[i])

\* C14: sortData(R, key) is a permutation of R; under 'name' the names
\* ascend, under 'name-desc' they descend, under 'type' the ranks county=1,
\* constituency=2, ward=3 ascend and the names ascend within a type; under
\* any other key the result is R in the input order.
C14_SortOrder ==
  op = "sortData" =>
    /\ IsPermutation(out, arg)
    /\ key = "name" =>
         \A i, j \in 1..Len(out) : i < j => localeCompare(out[i].name, out[j].name) <= 0
    /\ key = "name-desc" =>
         \A i, j \in 1..Len(out) : i < j => localeCompare(out[i].name, out[j].name) >= 0
    /\ key = "type" =>
         \A i, j \in 1..Len(out) : i < j =>
           \/ typeOrder(out[i].type) < typeOrder(out[j].type)
           \/ /\ typeOrder(out[i].type) = typeOrder(out[j].type)
              /\ localeCompare(out[i].name, out[j].name) <= 0
    /\ key \notin {"name", "name-desc", "type"} => out = arg

C14_Witness ==
  /\ op = "sortData"
  /\ key = "type"
  /\ arg = <<Parklands, Westlands, Changamwe>>
  /\ out = <<Changamwe, Westlands, Parklands>>

\* C15: after sortData(R, key) the array R holds the same records in the
\* same order as before the call, and the result is another array.
C15_InputUntouched ==
  op = "sortData" => R = arg /\ outFresh

C15_Witness ==
  /\ op = "sortData"
  /\ key = "name"
  /\ R = <<Westlands, Nairobi, Changamwe>>
  /\ out = <<Changamwe, Nairobi, Westlands>>

Reverse(s) == [i \in 1..Len(s) |-> s[Len(s) + 1 - i]]

DistinctNames(s) == \A i, j \in 1..Len(s) : i # j => s[i].name # s[j].name

\* C16: when the names of R are pairwise distinct, the reverse of
\* sortData(R, 'name') is sortData(R, 'name-desc'), element for element.
C16_ReverseOfName ==
  (op = "sortData" /\ key = "name" /\ DistinctNames(arg)) =>
    /\ Len(out) = Len(sortData(arg, "name-desc").sorted)
    /\ \A i \in 1..Len(out) :
         Reverse(out)[i] = sortData(arg, "name-desc").sorted[i]

C16_Witness ==
  /\ op = "sortData"
  /\ key = "name"
  /\ arg = <<Westlands, Nairobi, Changamwe>>
  /\ sortData(arg, "name-desc").sorted = <<Westlands, Nairobi, Changamwe>>
  /\ out = <<Changamwe, Nairobi, Westlands>>

\* C17: sortData(sortData(R, 'type'), 'type') is sortData(R, 'type'),
\* element for element.
C17_TypeIdempotent ==
  (op = "sortDataAgain" /\ key = "type") => out = arg

C17_Witness ==
  /\ op = "sortDataAgain"
  /\ key = "type"
  /\ R = <<ParklandsToo, Westlands, Parklands>>
  /\ out = <<Westlands, ParklandsToo, Parklands>>

\* the criteria of the last applyFilters call
TermOf == SearchTerm(crit.search, trimSearch)

Satisfies(item) ==
  /\ TermOf # "" => matchesSearch(item, TermOf)
  /\ crit.county # "" => item.county = crit.county
  /\ crit.type # "" => item.type = crit.type

KeptPositions == {i \in 1..Len(R) : Satisfies(R[i])}

NthOf(S, n) == CHOOSE i \in S : Cardinality({k \in S : k < i}) = n - 1

\* C18: the filter of applyFilters keeps exactly the records that meet
\* every active criterion (search and county and type, an empty one meeting
\* every record), in their original relative order; county and type compare
\* by equality with the record's field; without an active criterion all
\* records are kept.
C18_FilterConjunction ==
  op = "applyFilters" =>
    /\ Len(filtered) = Cardinality(KeptPositions)
    /\ \A n \in 1..Len(filtered) : filtered[n] = R[NthOf(KeptPositions, n)]
    /\ (TermOf = "" /\ crit.county = "" /\ crit.type = "") => filtered = R

C18_Witness ==
  /\ op = "applyFilters"
  /\ crit = [search |-> "nai", county |-> "Nairobi", type |-> "ward"]
  /\ R = Scenario
  /\ filtered = <<Parklands, Highridge>>

InFiltered(item) == \E n \in 1..Len(filtered) : filtered[n] = item

SubstringOf(item, term) ==
  \/ includes(toLowerCase(item.name), term)
  \/ ~Falsy(item.county) /\ includes(toLowerCase(item.county), term)

\* C19 as stated: a non-empty search term matches a record exactly when the
\* term, compared without regard to case, is a substring of the record's
\* name or, if it has one, of its county.
C19_TermIsSubstring ==
  (op = "applyFilters" /\ crit.search # "" /\ crit.county = "" /\ crit.type = "") =>
    \A i \in 1..Len(R) :
      InFiltered(R[i]) <=> SubstringOf(R[i], toLowerCase(crit.search))

\* C19 amended: the term is what the App makes of the typed text, lower
\* case and, in src/src/index.js, without surrounding whitespace; when that
\* is non-empty a record matches exactly when it is a substring of the lower
\* case name or county, and when it is empty every record matches; 'park' on
\* the four-record scenario yields [Parklands].
C19_NormalisedTermIsSubstring ==
  (op = "applyFilters" /\ crit.county = "" /\ crit.type = "") =>
    /\ TermOf # "" =>
         \A i \in 1..Len(R) : InFiltered(R[i]) <=> SubstringOf(R[i], TermOf)
    /\ TermOf = "" => filtered = R
    /\ (R = Scenario /\ crit.search = "park") => filtered = <<Parklands>>

C19_Witness ==
  /\ op = "applyFilters"
  /\ crit = [search |-> "park", county |-> "", type |-> ""]
  /\ R = Scenario
  /\ filtered = <<Parklands>>

----------------------------------------------------------------------------
(* Properties of debounce, under SpecDebounce *)

\* every trigger arrived less than wait after the one before it
Rapid ==
  \A i \in 1..(Len(triggers) - 1) : triggers[i + 1] - triggers[i] < DebounceWait

LastTrigger == triggers[Len(triggers)]

\* C20: when every trigger arrives less than wait after the previous one,
\* func is invoked exactly once, at (last trigger + wait): a trigger leaves
\* only its own timer pending, due wait after it, nothing is invoked before
\* that moment, and once it has passed there has been one invocation.
C20_SingleInvocation ==
  (triggers # <<>> /\ Rapid) =>
    /\ \A t \in pending : t = Timer(Len(triggers), LastTrigger + DebounceWait)
    /\ Len(invocations) <= 1
    /\ \A i \in 1..Len(invocations) : invocations[i] = LastTrigger + DebounceWait
    /\ invocations = <<>> => pending # {} /\ now <= LastTrigger + DebounceWait
    /\ now > LastTrigger + DebounceWait => Len(invocations) = 1

C20_Witness ==
  /\ triggers = <<0, 100, 150>>
  /\ invocations = <<450>>
  /\ pending = {}

----------------------------------------------------------------------------
(* Properties of the StorageManager, under SpecStore *)

Age(c) == c.at - c.before.timestamp
Readable(c) == c.ok /\ c.before.has /\ c.before.parses

\* C21: loadPreferences returns the stored preferences only if their age is
\* at most 7 days (and, storage permitting, whenever it is); an entry older
\* than 7 days makes it return null and remove the entry, and a load that
\* finds no entry returns null and leaves none, so loads stay absent until
\* the next save.  The strings come back through sanitizeHTML.
C21_FreshnessWindow ==
  scall.op = "load" =>
    /\ scall.ret.flag = "preferences" =>
         /\ Readable(scall)
         /\ Age(scall) <= MaxAgeMs
         /\ scall.ret.preferences = SanitizedPrefs(scall.before.preferences)
         /\ scall.after = scall.before
    /\ (Readable(scall) /\ Age(scall) <= MaxAgeMs) => scall.ret.flag = "preferences"
    /\ (Readable(scall) /\ Age(scall) > MaxAgeMs) =>
         (scall.ret = SRet("null", NoPrefs) /\ scall.after = NoEntry)
    /\ ~scall.before.has => (scall.ret = SRet("null", NoPrefs) /\ scall.after = NoEntry)

\* a load found an entry older than the window, answered null and removed it
C21_Witness ==
  /\ scall.op = "load" /\ Readable(scall)
  /\ Age(scall) > MaxAgeMs
  /\ scall.ret.flag = "null"
  /\ stored = NoEntry

\* an entry of exactly 7 days is still returned
C21_AtLimit ==
  /\ scall.op = "load" /\ Readable(scall)
  /\ Age(scall) = MaxAgeMs
  /\ scall.ret.flag = "preferences"

\* C23: the three methods never throw; with storage unavailable save
\* returns false, load null and clear false; an entry that does not parse
\* makes load return null; a save the storage accepts and a clear return true.
C23_NeverThrows ==
  /\ ~scall.ret.threw
  /\ (scall.op = "save" /\ ~scall.ok) => (scall.ret.flag = "false" /\ scall.after = scall.before)
  /\ (scall.op = "load" /\ ~scall.ok) => (scall.ret.flag = "null" /\ scall.after = scall.before)
  /\ (scall.op = "clear" /\ ~scall.ok) => (scall.ret.flag = "false" /\ scall.after = scall.before)
  /\ (scall.op = "load" /\ scall.ok /\ scall.before.has /\ ~scall.before.parses) =>
       scall.ret.flag = "null"
  /\ (scall.op = "save" /\ scall.ok /\ scall.accepts) =>
       (scall.ret.flag = "true" /\ scall.after.has /\ scall.after.timestamp = scall.at)
  /\ (scall.op = "save" /\ scall.ok /\ ~scall.accepts) =>
       (scall.ret.flag = "false" /\ scall.after = scall.before)
  /\ (scall.op = "clear" /\ scall.ok) => (scall.ret.flag = "true" /\ scall.after = NoEntry)

\* a load met an entry JSON.parse rejects and answered null
C23_Witness ==
  /\ scall.op = "load" /\ scall.ok
  /\ scall.before = GarbageEntry
  /\ scall.ret = SRet("null", NoPrefs)

\* the storage refused a write and savePreferences answered false
C23_QuotaWitness ==
  /\ scall.op = "save" /\ scall.ok /\ ~scall.accepts
  /\ scall.ret = SRet("false", NoPrefs)

----------------------------------------------------------------------------
(* Properties of the App, under SpecApp and SpecAppLive *)

Written == storageOk => stored = StoredEntry(controls, clock)

\* C22 as stated: every handler that completed applyFilters (init, a
\* county/type/sort change, a debounced search, a reset) has then saved the
\* current control values.
C22_SavedAfterEveryApply ==
  last.applied => (last.saved /\ Written)

\* C22 amended: a county, type or sort change and a debounced search run
\* applyFilters and then savePreferences of the current control values in
\* the same handler; the render of init or of the retry handler is followed
\* by no write, and a reset is followed by clearPreferences.
C22_SavedAfterControlChange ==
  /\ last.handler \in {"county", "type", "sort", "search"} =>
       (last.applied /\ last.saved /\ Written)
  /\ last.handler \in {"init", "retry"} => (~last.saved /\ ~last.cleared)
  /\ last.handler = "reset" =>
       (last.applied /\ ~last.saved /\ last.cleared /\ (storageOk => stored = NoEntry))

\* the debounced search ran on a typed term and wrote the controls
C22_Witness ==
  /\ last.handler = "search"
  /\ controls.search = "park"
  /\ storageOk
  /\ stored = StoredEntry(controls, clock)
  /\ filteredData = <<Parklands>>

\* C24: offline at init: the error is shown with the retry button, the
\* retry handler is attached, no data is loaded, no listener registered and
\* nothing rendered; any failure of init ends with the error and the button.
C24_InitFailureShowsRetry ==
  (apc = "idle" /\ last.handler = "init") =>
    /\ ~online =>
         /\ last.failed
         /\ ~listening
         /\ currentData = <<>> /\ loadedData = <<>> /\ filteredData = <<>>
         /\ controls = DefaultControls
         /\ stored \in EarlierEntries
    /\ last.failed => (ui = Ui("error", TRUE) /\ retryHandler)

\* init ran offline and left the error with the retry button
C24_Witness ==
  /\ apc = "idle" /\ last.handler = "init"
  /\ ~online
  /\ ui = Ui("error", TRUE)
  /\ retryHandler

\* init failed after the data had arrived
C24_OnlineFailure ==
  /\ apc = "idle" /\ last.handler = "init"
  /\ online /\ last.failed
  /\ currentData = Scenario
  /\ ui = Ui("error", TRUE)

\* C26: whatever the handlers did, currentData holds the records it was
\* loaded with, in that order, and filteredData has never been that array.
C26_ViewsAreCopies ==
  /\ currentData = loadedData
  /\ ~aliased

\* a view that keeps every record, in another order than the loaded data
C26_Witness ==
  /\ last.applied
  /\ currentData = Scenario
  /\ Len(filteredData) = Len(currentData)
  /\ filteredData # currentData
  /\ ~aliased

\* C27: after resetFilters, with localStorage usable, no preferences are
\* stored until the user changes a control again.
C27_EmptyAfterReset ==
  (sinceReset /\ storageOk) => ~stored.has

\* C30: no completed init or retry run leaves the loader up, and a loader
\* that is up is eventually removed.
C30_LoaderRemoved ==
  /\ [](apc = "idle" => ui.content # "loading")
  /\ (ui.content = "loading") ~> (apc = "idle" /\ ui.content # "loading")

\* a retry run that had put the loader up has ended in the error display
C30_Witness ==
  /\ apc = "idle"
  /\ last.handler = "retry" /\ last.failed
  /\ ui = Ui("error", TRUE)

====
